---- MODULE Spec2Model ----
(***************************************************************************)
(* Model of dalet-lsp (src/src/main.rs): the Backend of the language       *)
(* server.  The state is the document_map (uri -> Rope), the handler       *)
(* futures in flight with the await they are suspended at, and what the    *)
(* client has received (published diagnostics, formatting responses).      *)
(*                                                                         *)
(* A text is a sequence of characters.  String::len counts UTF-8 bytes     *)
(* (len_bytes), the Rope indexes by character (Len): the two differ on     *)
(* every text that holds a multi-byte character.  The lexer, the parser    *)
(* and the formatter live in the dalet crate: their outputs are drawn      *)
(* from every result their types allow.                                    *)
(***************************************************************************)
EXTENDS Integers, Sequences, FiniteSets, TLC

VARIABLES
    document_map,   \* Backend.document_map: function from the stored uris to their Rope
    tasks,          \* the handler futures in flight, each suspended at task.pc
    published,      \* per uri, the last textDocument/publishDiagnostics the client got
    response,       \* the last answer to a textDocument/formatting request
    panic,          \* <<>> or <<the handler and the line that panicked>>
    delivered,      \* per uri, the last did_open/did_change event the transport delivered
    lifecycle,      \* per uri, the last lifecycle notification: "none", "open", "closed"
    nextVersion,    \* the version the client gives to its next open/change event
    query           \* <<>> or <<the last call of offset_to_position and its result>>

vars == <<document_map, tasks, published, response, panic, delivered, lifecycle, nextVersion,
          query>>

----------------------------------------------------------------------------
(* Bounds *)

MaxLen == 2         \* characters of a text in the single-event specification
DocLen == 1         \* characters of a text in the session specifications
MaxErrs == 2        \* lexer plus parser errors of one check, single-event specification
SessionErrs == 1    \* lexer plus parser errors of one check, session specifications
MaxChanges == 2     \* content changes carried by one did_change event
MaxVersion == 2     \* open/change events of one session
MaxInFlight == 2    \* handler futures in flight at once
MapLen == 3         \* characters of a text in the offset_to_position specification

URIs == {"A", "B"}

\* "a": a one-byte character; "\n": the line break; "é": a two-byte character
Chars == {"a", "\n", "é"}

Text(n) == UNION {[1..k -> Chars] : k \in 0..n}

None == <<>>
Some(x) == <<x>>

----------------------------------------------------------------------------
(* Strings and ropes *)

\* UTF-8 width of a character
len_utf8(c) == IF c = "é" THEN 2 ELSE 1

\* String::len: the length in bytes
RECURSIVE len_bytes(_)
len_bytes(text) ==
    IF text = <<>> THEN 0 ELSE len_utf8(Head(text)) + len_bytes(Tail(text))

\* Rope::from_str and Rope::to_string keep the characters
from_str(text) == text
to_string(rope) == rope

\* Rope::len_chars
len_chars(rope) == Len(rope)

\* Rope::len_lines: one more than the line breaks
len_lines(rope) == Cardinality({i \in 1..Len(rope) : rope[i] = "\n"}) + 1

\* A bound check that also rejects the one-past-the-end index
try_char_to_line_exclusive(char_idx, rope) ==
    IF char_idx >= Len(rope)
    THEN None
    ELSE Some(Cardinality({i \in 1..char_idx : rope[i] = "\n"}))

\* Rope::try_char_to_line: Err past the end; the line of the one-past-the-end
\* index is the last line
try_char_to_line(char_idx, rope) ==
    IF char_idx > len_chars(rope)
    THEN None
    ELSE Some(Cardinality({i \in 1..char_idx : rope[i] = "\n"}))

\* Rope::try_line_to_char: Err past len_lines; the index of the first
\* character of the line (len_chars for the line one past the last)
try_line_to_char(line_idx, rope) ==
    IF line_idx > len_lines(rope)
    THEN None
    ELSE IF line_idx = 0 THEN Some(0)
    ELSE IF line_idx = len_lines(rope) THEN Some(len_chars(rope))
    ELSE Some(CHOOSE i \in 1..Len(rope) :
                /\ rope[i] = "\n"
                /\ Cardinality({j \in 1..i : rope[j] = "\n"}) = line_idx)

\* Positions counted from one, as editors show them
Position_one_based(line, character) ==
    [line |-> line + 1, character |-> character + 1]

Position(line, character) == [line |-> line, character |-> character]

\* A column that is the offset itself, not the offset inside the line
offset_to_position_abs(offset, rope) ==
    LET line == try_char_to_line(offset, rope) IN
    IF line = None THEN None ELSE Some(Position(line[1], offset))

offset_to_position(offset, rope) ==
    LET line == try_char_to_line(offset, rope) IN
    IF line = None THEN None
    ELSE LET first_char_of_line == try_line_to_char(line[1], rope) IN
         IF first_char_of_line = None THEN None
         ELSE Some(Position(line[1], offset - first_char_of_line[1]))

----------------------------------------------------------------------------
(* The collaborators of the dalet crate *)

\* A span of chumsky over a &str: byte offsets, start <= end <= the byte length
Spans(n) == {s \in (0..n) \X (0..n) : s[1] <= s[2]}

SpanSeqs(n, k) == UNION {[1..j -> Spans(n)] : j \in 0..k}

\* lexer().parse(text).into_output_errors(): the recovered tokens, if any, and
\* the errors; a parse without output has at least one error
lexer(text, cap) ==
    {[tokens |-> tk, errors |-> es] :
        tk \in BOOLEAN, es \in SpanSeqs(len_bytes(text), cap)}
    \ {[tokens |-> FALSE, errors |-> <<>>]}

\* parser().parse(tokens ...).into_errors(): spans inside 0..text.len()
parser(text, cap) == SpanSeqs(len_bytes(text), cap)

\* full_lexer().parse(string).into_result(): Ok(tokens) or Err(errors)
full_lexer(string) == {"Ok", "Err"}

\* format(&t), for the tokens t of string: the rendering of that string
format(string) == [format |-> string]

----------------------------------------------------------------------------
(* DashMap *)

get(map, key) == IF key \in DOMAIN map THEN Some(map[key]) ELSE None

\* A map that keeps the entry it already has (entry().or_insert)
insert_if_absent(map, key, value) ==
    [k \in DOMAIN map \cup {key} |->
        IF k \in DOMAIN map THEN map[k] ELSE value]

\* A map rebuilt from the one new entry
insert_only(map, key, value) == [k \in {key} |-> value]

insert(map, key, value) ==
    [k \in DOMAIN map \cup {key} |-> IF k = key THEN value ELSE map[k]]

\* A formatting that copies the Rope out and lets the Ref go at once
RefReleased(uri) == FALSE

\* formatting keeps the Ref returned by get, a read lock on the entry's
\* shard, until it returns: insert waits for it
RefHeld(uri) == \E t \in tasks : t.kind = "formatting" /\ t.uri = uri

----------------------------------------------------------------------------
(* check_file *)

\* lines 36-52: the (message, span) pairs, lexer errors first
Spanned(stage, spans) ==
    [i \in 1..Len(spans) |->
        [message |-> <<stage, i>>, start |-> spans[i][1], end |-> spans[i][2]]]

\* A check that reports the parser's errors first
parser_errors_first(lex_errors, parse_errors) ==
    Spanned("parser", parse_errors) \o Spanned("lexer", lex_errors)

\* lines 36-52: errors, pushed in the order lexer errors, parser errors
collect_errors(lex_errors, parse_errors) ==
    Spanned("lexer", lex_errors) \o Spanned("parser", parse_errors)

\* A check that runs the parser whether or not the lexer returned tokens
parse_always(tokens, text, cap) == parser(text, cap)

\* lines 44-52: the parser runs `if let Some(tokens) = tokens`
parse(tokens, text, cap) == IF tokens THEN parser(text, cap) ELSE {<<>>}

Diagnostic(start_position, end_position, message) ==
    [range |-> [start |-> start_position, end |-> end_position],
     severity |-> "ERROR", message |-> message]

\* A collect into Option<Vec<_>>: one unmappable span empties the list
DiagnosticsAllOrNothing(errors, rope) ==
    IF \E i \in DOMAIN errors :
            \/ offset_to_position(errors[i].start, rope) = None
            \/ offset_to_position(errors[i].end, rope) = None
    THEN <<>>
    ELSE [i \in DOMAIN errors |->
            Diagnostic(offset_to_position(errors[i].start, rope)[1],
                       offset_to_position(errors[i].end, rope)[1],
                       errors[i].message)]

\* A check that resolves the spans against the Rope document "A" has in the
\* document_map, when it has one, not against the Rope of the checked text
DiagnosticsAgainstStore(errors, rope) ==
    LET stored == IF "A" \in DOMAIN document_map THEN document_map["A"] ELSE rope
        maps(error) == /\ offset_to_position(error.start, stored) # None
                       /\ offset_to_position(error.end, stored) # None
        kept == SelectSeq(errors, maps)
    IN [i \in DOMAIN kept |->
            Diagnostic(offset_to_position(kept[i].start, stored)[1],
                       offset_to_position(kept[i].end, stored)[1],
                       kept[i].message)]

\* lines 54-69: filter_map over the errors, `?` on either position
RECURSIVE Diagnostics(_, _)
Diagnostics(errors, rope) ==
    IF errors = <<>> THEN <<>>
    ELSE LET error == Head(errors)
             start_position == offset_to_position(error.start, rope)
             end_position == offset_to_position(error.end, rope)
             rest == Diagnostics(Tail(errors), rope)
         IN IF start_position = None \/ end_position = None
            THEN rest
            ELSE <<Diagnostic(start_position[1], end_position[1], error.message)>>
                 \o rest

Task(kind, uri, version, text, pc) ==
    [kind |-> kind, uri |-> uri, version |-> version, text |-> text, pc |-> pc,
     errors |-> <<>>, diagnostics |-> <<>>, parsed |-> FALSE]

Running == panic = None

\* lines 34-71: resumed after the log_message await, runs to the
\* publish_diagnostics await
check_file(t, cap) ==
    /\ Running
    /\ t \in tasks
    /\ t.pc = "check_log"
    /\ ~RefHeld(t.uri)
    /\ \E lexed \in lexer(t.text, cap) :
       \E parse_errors \in parse(lexed.tokens, t.text, cap - Len(lexed.errors)) :
          LET rope == from_str(t.text)
              errors == collect_errors(lexed.errors, parse_errors)
          IN /\ document_map' = insert(document_map, t.uri, rope)
             /\ tasks' = (tasks \ {t}) \cup
                         {[t EXCEPT !.pc = "publish",
                                    !.errors = errors,
                                    !.diagnostics = Diagnostics(errors, rope),
                                    !.parsed = lexed.tokens]}
    /\ UNCHANGED <<published, response, panic, delivered, lifecycle, nextVersion, query>>

\* lines 73-75: the publish_diagnostics await completes, check_file returns
publish_diagnostics(t) ==
    /\ Running
    /\ t \in tasks
    /\ t.pc = "publish"
    /\ published' = [published EXCEPT ![t.uri] =
            Some([version |-> t.version, diagnostics |-> t.diagnostics,
                  text |-> t.text, errors |-> t.errors, parsed |-> t.parsed])]
    /\ tasks' = tasks \ {t}
    /\ UNCHANGED <<document_map, response, panic, delivered, lifecycle, nextVersion, query>>

----------------------------------------------------------------------------
(* impl LanguageServer for Backend *)

Event(method, text, version, changes) ==
    [method |-> method, text |-> text, version |-> version, changes |-> changes]

\* lines 168-171: did_open is called and runs to its log_message await
did_open(uri, text, limit) ==
    /\ Running
    /\ Cardinality(tasks) < limit
    /\ nextVersion <= MaxVersion
    /\ tasks' = tasks \cup {Task("did_open", uri, nextVersion, text, "open_log")}
    /\ delivered' = [delivered EXCEPT ![uri] = Some(Event("did_open", text, nextVersion, 1))]
    /\ lifecycle' = [lifecycle EXCEPT ![uri] = "open"]
    /\ nextVersion' = nextVersion + 1
    /\ UNCHANGED <<document_map, published, response, panic, query>>

\* lines 172-177 and 30-32: "file opened" is logged, check_file is called and
\* runs to its own log_message await
did_open_check(t) ==
    /\ Running
    /\ t \in tasks
    /\ t.pc = "open_log"
    /\ tasks' = (tasks \ {t}) \cup {[t EXCEPT !.pc = "check_log"]}
    /\ UNCHANGED <<document_map, published, response, panic, delivered, lifecycle,
                   nextVersion, query>>

\* lines 159-165 and 30-32: did_change takes content_changes[0].text (a panic
\* on an empty vector), calls check_file, which runs to its log_message await
did_change(uri, content_changes, limit) ==
    /\ Running
    /\ Cardinality(tasks) < limit
    /\ nextVersion <= MaxVersion
    /\ nextVersion' = nextVersion + 1
    /\ IF content_changes = <<>>
       THEN /\ panic' = Some([handler |-> "did_change", line |-> 162, uri |-> uri])
            /\ UNCHANGED <<tasks, delivered, query>>
       ELSE /\ tasks' = tasks \cup
                    {Task("did_change", uri, nextVersion, content_changes[1],
                          "check_log")}
            /\ delivered' = [delivered EXCEPT ![uri] =
                    Some(Event("did_change", content_changes[Len(content_changes)],
                               nextVersion, Len(content_changes)))]
            /\ UNCHANGED panic
    /\ UNCHANGED <<document_map, published, response, lifecycle, query>>

\* No did_close is implemented: the trait's default handler does nothing to
\* the Backend
did_close(uri) ==
    /\ Running
    /\ lifecycle[uri] = "open"
    /\ lifecycle' = [lifecycle EXCEPT ![uri] = "closed"]
    /\ UNCHANGED <<document_map, tasks, published, response, panic, delivered,
                   nextVersion, query>>

\* lines 136-140: get(uri).unwrap() and rope.to_string()
formatting(uri, limit) ==
    /\ Running
    /\ Cardinality(tasks) < limit
    /\ LET rope == get(document_map, uri) IN
       IF rope = None
       THEN /\ panic' = Some([handler |-> "formatting", line |-> 138, uri |-> uri])
            /\ UNCHANGED tasks
       ELSE /\ tasks' = tasks \cup
                    {Task("formatting", uri, 0, to_string(rope[1]), "lexed")}
            /\ UNCHANGED panic
    /\ UNCHANGED <<document_map, published, response, delivered, lifecycle,
                   nextVersion, query>>

\* An edit that inserts at the start and replaces nothing
TextEdit_insertion(start, end, new_text) ==
    [range |-> [start |-> start, end |-> start], new_text |-> new_text]

TextEdit(start, end, new_text) ==
    [range |-> [start |-> start, end |-> end], new_text |-> new_text]

\* An Err arm that still hands out an edit
lexer_error_with_edit(uri) ==
    [uri |-> uri, result |-> "InternalError", lexed |-> "Err",
     edits |-> <<TextEdit(Position(0, 0), Position(0, 0), format(<<>>))>>]

\* lines 151-155: Err(Error { code: InternalError, message: "Lexer error" })
lexer_error(uri) ==
    [uri |-> uri, result |-> "InternalError", lexed |-> "Err", edits |-> <<>>]

\* lines 141-156: the positions come from the Rope behind the Ref, the
\* tokens from the string
formatting_result(t) ==
    /\ Running
    /\ t \in tasks
    /\ t.pc = "lexed"
    /\ tasks' = tasks \ {t}
    /\ \E lexed \in full_lexer(t.text) :
        LET rope == document_map[t.uri]
            string == t.text
            start == offset_to_position(0, rope)
            end == offset_to_position(len_bytes(string), rope)
        IN IF lexed = "Ok"
           THEN IF start = None \/ end = None
                THEN /\ panic' = Some([handler |-> "formatting",
                                       line |-> IF start = None THEN 146 ELSE 147,
                                       uri |-> t.uri])
                     /\ UNCHANGED response
                ELSE /\ response' = Some([uri |-> t.uri, result |-> "Ok",
                            lexed |-> "Ok",
                            edits |-> <<TextEdit(start[1], end[1], format(string))>>])
                     /\ UNCHANGED panic
           ELSE /\ response' = Some(lexer_error(t.uri))
                /\ UNCHANGED panic
    /\ UNCHANGED <<document_map, published, delivered, lifecycle, nextVersion, query>>

----------------------------------------------------------------------------
(* Specifications *)

\* After main has built the Backend: DashMap::new(), nothing in flight
Init ==
    /\ document_map = <<>>
    /\ tasks = {}
    /\ published = [u \in URIs |-> None]
    /\ response = None
    /\ panic = None
    /\ delivered = [u \in URIs |-> None]
    /\ lifecycle = [u \in URIs |-> "none"]
    /\ nextVersion = 1
    /\ query = None

Steps ==
    \/ \E t \in tasks : did_open_check(t)
    \/ \E t \in tasks : publish_diagnostics(t)
    \/ \E t \in tasks : formatting_result(t)
    \/ \E u \in URIs : did_close(u)

\* The session on one document: up to MaxInFlight handlers interleave at
\* their awaits
Next ==
    \/ \E text \in Text(DocLen) : did_open("A", text, MaxInFlight)
    \/ \E text \in Text(DocLen) : did_change("A", <<text>>, MaxInFlight)
    \/ formatting("A", MaxInFlight)
    \/ \E t \in tasks : check_file(t, SessionErrs)
    \/ Steps

Spec == Init /\ [][Next]_vars

\* The session on several documents, one handler at a time
NextSeq ==
    \/ \E u \in URIs, text \in Text(DocLen) : did_open(u, text, 1)
    \/ \E u \in URIs, text \in Text(DocLen) : did_change(u, <<text>>, 1)
    \/ \E u \in URIs : formatting(u, 1)
    \/ \E t \in tasks : check_file(t, SessionErrs)
    \/ Steps

SpecSeq == Init /\ [][NextSeq]_vars

\* One event, with every text, every content_changes and every error list
\* within the bounds
NextCheck ==
    \/ \E u \in URIs, text \in Text(MaxLen) :
            nextVersion = 1 /\ did_open(u, text, 1)
    \/ \E u \in URIs, cc \in UNION {[1..k -> Text(MaxLen)] : k \in 0..MaxChanges} :
            nextVersion = 1 /\ did_change(u, cc, 1)
    \/ \E t \in tasks : did_open_check(t)
    \/ \E t \in tasks : check_file(t, MaxErrs)
    \/ \E t \in tasks : publish_diagnostics(t)

SpecCheck == Init /\ [][NextCheck]_vars

\* lines 195-200 as a function: a call with any offset on any text
call_offset_to_position(offset, rope) ==
    /\ query' = Some([offset |-> offset, rope |-> rope,
                      position |-> offset_to_position(offset, rope)])
    /\ UNCHANGED <<document_map, tasks, published, response, panic, delivered,
                   lifecycle, nextVersion>>

NextMapper ==
    \E text \in Text(MapLen) :
        \E offset \in 0..(len_bytes(text) + 1) :
            call_offset_to_position(offset, from_str(text))

SpecMapper == Init /\ [][NextMapper]_vars

----------------------------------------------------------------------------
(* Properties *)

CheckTasks(uri) ==
    {t \in tasks : t.uri = uri /\ t.kind \in {"did_open", "did_change"}}

\* C1: a formatting request for a uri the document_map has no entry for is
\* answered with a request-level error and no edits, without a panic and
\* without a change of the document_map.
C1_UnknownUriIsAnErrorResponse ==
    [][\A u \in URIs :
        (u \notin DOMAIN document_map /\ formatting(u, MaxInFlight)) =>
            /\ panic' = None
            /\ response' # None
            /\ response'[1].uri = u
            /\ response'[1].result # "Ok"
            /\ response'[1].edits = <<>>
            /\ document_map' = document_map]_vars

\* C2: with the handlers run one at a time, once check_file has passed its
\* insert the entry of its uri is exactly its text, and the entry of every
\* uri is the text of the last open/change event delivered for it, whatever
\* the entry held before and whatever errors the check collected.
C2_StoreHoldsLatestText ==
    /\ \A t \in tasks : t.pc = "publish" =>
            get(document_map, t.uri) = Some(from_str(t.text))
    /\ \A u \in URIs :
            IF delivered[u] = None
            THEN u \notin DOMAIN document_map
            ELSE (\A t \in CheckTasks(u) : t.pc = "publish") =>
                    get(document_map, u) = Some(from_str(delivered[u][1].text))

\* C2 witness: a check with errors has replaced an entry that held another text.
C2_Witness ==
    \E t \in tasks :
        /\ t.pc = "publish"
        /\ t.errors # <<>>
        /\ published[t.uri] # None
        /\ published[t.uri][1].text # t.text
        /\ document_map[t.uri] = from_str(t.text)

\* C3: no did_open and no did_change handler ends in a panic instead of
\* publishing.
C3_EventHandlersNeverFail ==
    panic # None => panic[1].handler \notin {"did_open", "did_change"}

Mappable(error, rope) ==
    /\ offset_to_position(error.start, rope) # None
    /\ offset_to_position(error.end, rope) # None

\* The index in errors of the k-th error whose span maps
NthMappable(errors, rope, k) ==
    CHOOSE i \in DOMAIN errors :
        /\ Mappable(errors[i], rope)
        /\ Cardinality({j \in 1..i : Mappable(errors[j], rope)}) = k

OneDiagnosticPerMappableError(errors, diagnostics, rope) ==
    /\ Len(diagnostics) =
            Cardinality({i \in DOMAIN errors : Mappable(errors[i], rope)})
    /\ \A k \in DOMAIN diagnostics :
        LET error == errors[NthMappable(errors, rope, k)] IN
            /\ diagnostics[k].message = error.message
            /\ diagnostics[k].range.start =
                    offset_to_position(error.start, rope)[1]
            /\ diagnostics[k].range.end = offset_to_position(error.end, rope)[1]

\* C4: the diagnostics check_file publishes are, one for one, the collected
\* errors whose span start and end both map to a position of the checked
\* text, each with the mapped positions as its range; the others are dropped.
C4_DiagnosticsAreTheMappableErrors ==
    /\ \A t \in tasks : t.pc = "publish" =>
            OneDiagnosticPerMappableError(t.errors, t.diagnostics,
                                          from_str(t.text))
    /\ \A u \in URIs : published[u] # None =>
            OneDiagnosticPerMappableError(published[u][1].errors,
                                          published[u][1].diagnostics,
                                          from_str(published[u][1].text))

\* C4 witness: of two collected errors one is unmappable and dropped, the
\* other is published.
C4_Witness ==
    \E u \in URIs :
        /\ published[u] # None
        /\ Len(published[u][1].errors) = 2
        /\ Len(published[u][1].diagnostics) = 1
        /\ ~Mappable(published[u][1].errors[1], from_str(published[u][1].text))

\* C5: a formatting request on a stored document one of whose boundaries
\* does not resolve is answered with a request-level error and no edit,
\* without a panic.
C5_UnresolvedBoundaryIsAnErrorResponse ==
    [][\A t \in tasks :
        (/\ t.kind = "formatting"
         /\ \/ offset_to_position(0, document_map[t.uri]) = None
            \/ offset_to_position(len_bytes(t.text), document_map[t.uri]) = None
         /\ formatting_result(t)) =>
            /\ panic' = None
            /\ response' # None
            /\ response'[1].result # "Ok"
            /\ response'[1].edits = <<>>]_vars

\* C6: the edit of a formatting response is made of one text: its new text
\* is the rendering of a text X and its range runs from the start of X to
\* the end of X.
C6_EditFromOneSnapshot ==
    (response # None /\ response[1].result = "Ok") =>
        LET edit == response[1].edits[1]
            X == edit.new_text.format
        IN /\ edit.range.start = offset_to_position(0, from_str(X))[1]
           /\ edit.range.end = offset_to_position(len_bytes(X), from_str(X))[1]

\* C6 witness: a formatting request was answered from the old text while a
\* change carrying another text waits for its insert.
C6_Witness ==
    /\ response # None
    /\ response[1].result = "Ok"
    /\ \E t \in tasks :
        /\ t.kind = "did_change"
        /\ t.uri = response[1].uri
        /\ t.pc = "check_log"
        /\ t.text # response[1].edits[1].new_text.format
        /\ document_map[t.uri] = response[1].edits[1].new_text.format

\* C7: a formatting request delivered after a change notification of its
\* uri, and before any later one, reads the text of that change from the
\* document_map.
C7_FormatSeesLatestDeliveredText ==
    [][\A u \in URIs :
        (/\ delivered[u] # None
         /\ delivered[u][1].method = "did_change"
         /\ u \in DOMAIN document_map
         /\ formatting(u, MaxInFlight)) =>
            \E t \in tasks' :
                /\ t.kind = "formatting"
                /\ t.uri = u
                /\ t.text = delivered[u][1].text]_vars

\* C8: once the handlers of the change notifications of a uri have finished,
\* the document_map holds the text of the notification delivered last (the
\* uri got change notifications only).
C8_LastDeliveredTextWins ==
    \A u \in URIs :
        (delivered[u] # None /\ lifecycle[u] = "none" /\ CheckTasks(u) = {}) =>
            get(document_map, u) = Some(from_str(delivered[u][1].text))

\* C9: once the check runs of a uri have finished, the diagnostics published
\* last for it were computed from the text the document_map holds for it
\* (stated for the runs that committed in delivery order).
C9_LastPublishMatchesStore ==
    \A u \in URIs :
        (/\ published[u] # None
         /\ CheckTasks(u) = {}
         /\ get(document_map, u) = Some(from_str(delivered[u][1].text))) =>
            published[u][1].text = delivered[u][1].text

\* C10: after a did_close of a uri, with no check of it in flight, the
\* document_map has no entry for it.
C10_CloseRemovesEntry ==
    \A u \in URIs :
        (lifecycle[u] = "closed" /\ CheckTasks(u) = {}) =>
            u \notin DOMAIN document_map

Stage(message) == message[1]

\* C11: in a published list every lexer diagnostic precedes every parser
\* diagnostic, and the diagnostics of one stage are in the order in which
\* the stage produced their errors.
C11_LexerDiagnosticsFirst ==
    \A u \in URIs : published[u] # None =>
        LET d == published[u][1].diagnostics IN
        \A i, j \in DOMAIN d : i < j =>
            /\ Stage(d[i].message) = "parser" => Stage(d[j].message) = "parser"
            /\ Stage(d[i].message) = Stage(d[j].message) =>
                    d[i].message[2] < d[j].message[2]

\* C11 witness: a lexer diagnostic followed by a parser diagnostic is published.
C11_Witness ==
    \E u \in URIs :
        /\ published[u] # None
        /\ Len(published[u][1].diagnostics) = 2
        /\ Stage(published[u][1].diagnostics[1].message) = "lexer"
        /\ Stage(published[u][1].diagnostics[2].message) = "parser"

\* C12: a formatting request that succeeds returns one edit, from the
\* position of offset 0 to the position of the end of the stored text, whose
\* new text is the rendering of the stored text.
C12_OneWholeDocumentEdit ==
    [][\A t \in tasks :
        (/\ formatting_result(t)
         /\ panic' = None
         /\ response'[1].lexed = "Ok") =>
            LET stored == document_map[t.uri] IN
            /\ response'[1].uri = t.uri
            /\ response'[1].result = "Ok"
            /\ Len(response'[1].edits) = 1
            /\ Some(response'[1].edits[1].range.start) =
                    offset_to_position(0, stored)
            /\ Some(response'[1].edits[1].range.end) =
                    offset_to_position(len_chars(stored), stored)
            /\ response'[1].edits[1].new_text = format(to_string(stored))]_vars

\* C12 witness: a non-empty stored text was formatted.
C12_Witness ==
    /\ response # None
    /\ response[1].result = "Ok"
    /\ response[1].edits[1].new_text.format # <<>>
    /\ document_map[response[1].uri] = response[1].edits[1].new_text.format

\* C13: when the full lexer fails on the stored text the request is answered
\* with an error and no edit, and the document_map stays as it was.
C13_LexFailureGivesNoEdit ==
    [][\A t \in tasks :
        (/\ formatting_result(t)
         /\ panic' = None
         /\ response'[1].lexed = "Err") =>
            /\ response'[1].uri = t.uri
            /\ response'[1].result # "Ok"
            /\ response'[1].edits = <<>>
            /\ document_map' = document_map]_vars

\* C13 witness: a formatting request on a stored document ended in the
\* lexer error.
C13_Witness ==
    /\ response # None
    /\ response[1].lexed = "Err"
    /\ response[1].uri \in DOMAIN document_map

\* C14: the offset that is the length of the text (in characters, the unit
\* of the Rope) resolves, and offset 0 of a non-empty text is line 0,
\* column 0.
C14_BoundaryOffsetsResolve ==
    query # None =>
        LET q == query[1] IN
        /\ q.offset = Len(q.rope) => q.position # None
        /\ (q.offset = 0 /\ q.rope # <<>>) =>
                q.position = Some([line |-> 0, character |-> 0])

\* C14 witness: the end of a text with a line break and a two-byte
\* character was resolved.
C14_Witness ==
    /\ query # None
    /\ query[1].offset = Len(query[1].rope)
    /\ \E i, j \in DOMAIN query[1].rope :
            query[1].rope[i] = "\n" /\ query[1].rope[j] = "é"
    /\ query[1].position # None

\* The offset at which the line of index n starts: just after its n-th
\* line break
LineStart(rope, n) ==
    IF n = 0 THEN 0
    ELSE LET breaks == {i \in DOMAIN rope : rope[i] = "\n"} IN
         CHOOSE i \in breaks : Cardinality({j \in breaks : j < i}) = n - 1

\* C15: for an offset inside the text, the position is the line that
\* contains the offset (as many line breaks precede it) and the column that,
\* added to the start offset of that line, gives the offset back.
C15_PositionRoundTrip ==
    (query # None /\ query[1].offset <= Len(query[1].rope)) =>
        LET q == query[1] IN
        /\ q.position # None
        /\ q.position[1].line =
                Cardinality({i \in 1..q.offset : q.rope[i] = "\n"})
        /\ q.position[1].character >= 0
        /\ LineStart(q.rope, q.position[1].line) + q.position[1].character
                = q.offset
        /\ \A i \in (LineStart(q.rope, q.position[1].line) + 1)..q.offset :
                q.rope[i] # "\n"

\* C15 witness: an offset inside a line that is not the first was resolved.
C15_Witness ==
    /\ query # None
    /\ query[1].position # None
    /\ query[1].position[1].line > 0
    /\ query[1].position[1].character > 0

\* C16: offset_to_position returns none exactly for the offsets greater than
\* the length of the text (in characters), a position for 0..length.
C16_NoneExactlyPastTheEnd ==
    query # None =>
        (query[1].position = None <=> query[1].offset > Len(query[1].rope))

\* C16 witness: an offset past the end of a non-empty text gave none.
C16_Witness ==
    /\ query # None
    /\ query[1].rope # <<>>
    /\ query[1].offset > Len(query[1].rope)
    /\ query[1].position = None

\* C17: the positions of every published diagnostic are those of its error's
\* span in the text of the event that was checked, whatever the document_map
\* holds, and the boundaries of a formatting edit are positions in the text
\* that was lexed.
C17_SpansResolvedInTheirOwnText ==
    /\ \A u \in URIs : published[u] # None =>
        LET p == published[u][1]
            own == from_str(p.text)
        IN /\ \A k \in DOMAIN p.diagnostics :
                \E i \in DOMAIN p.errors :
                    /\ p.errors[i].message = p.diagnostics[k].message
                    /\ offset_to_position(p.errors[i].start, own) =
                            Some(p.diagnostics[k].range.start)
                    /\ offset_to_position(p.errors[i].end, own) =
                            Some(p.diagnostics[k].range.end)
           /\ \A i \in DOMAIN p.errors :
                Mappable(p.errors[i], own) =>
                    \E k \in DOMAIN p.diagnostics :
                        p.diagnostics[k].message = p.errors[i].message
    /\ (response # None /\ response[1].result = "Ok") =>
        LET lexedText == response[1].edits[1].new_text.format IN
        /\ offset_to_position(0, from_str(lexedText)) =
                Some(response[1].edits[1].range.start)
        /\ offset_to_position(len_bytes(lexedText), from_str(lexedText)) =
                Some(response[1].edits[1].range.end)

\* C17 witness: diagnostics were published for a text while the
\* document_map already held another text for the uri.
C17_Witness ==
    \E u \in URIs :
        /\ published[u] # None
        /\ published[u][1].diagnostics # <<>>
        /\ u \in DOMAIN document_map
        /\ document_map[u] # from_str(published[u][1].text)

\* C18: parser errors are collected only when the lexer returned tokens;
\* without tokens the errors and the diagnostics are the lexer's only.
C18_ParserRunsIffTokens ==
    \A u \in URIs : published[u] # None =>
        LET p == published[u][1] IN
        /\ (\E i \in DOMAIN p.errors : Stage(p.errors[i].message) = "parser")
                => p.parsed
        /\ ~p.parsed =>
            /\ p.errors # <<>>
            /\ \A i \in DOMAIN p.errors : Stage(p.errors[i].message) = "lexer"
            /\ \A k \in DOMAIN p.diagnostics :
                    Stage(p.diagnostics[k].message) = "lexer"

\* C18 witness: the lexer returned tokens alongside an error and the parser
\* added an error of its own.
C18_Witness ==
    \E u \in URIs :
        /\ published[u] # None
        /\ published[u][1].parsed
        /\ \E i, j \in DOMAIN published[u][1].errors :
            /\ Stage(published[u][1].errors[i].message) = "lexer"
            /\ Stage(published[u][1].errors[j].message) = "parser"

\* C19: the text did_change hands to check_file is the latest full text the
\* change event carries.
C19_ChangeChecksLatestText ==
    \A t \in tasks :
        t.kind = "did_change" => t.text = delivered[t.uri][1].text

\* C20: a formatting request leaves the document_map and the published
\* diagnostics as they were; a check_file run changes the entry of its own
\* uri only and publishes for its own uri only.
C20_Frame ==
    [][/\ \A u \in URIs : formatting(u, 1) =>
            document_map' = document_map /\ published' = published
       /\ \A t \in tasks : formatting_result(t) =>
            document_map' = document_map /\ published' = published
       /\ \A t \in tasks : check_file(t, SessionErrs) =>
            /\ published' = published
            /\ \A u \in URIs \ {t.uri} :
                    get(document_map', u) = get(document_map, u)
       /\ \A t \in tasks : publish_diagnostics(t) =>
            /\ document_map' = document_map
            /\ \A u \in URIs \ {t.uri} : published'[u] = published[u]]_vars

\* C20 witness: two documents are stored and diagnosed and one of them has
\* been formatted.
C20_Witness ==
    /\ response # None
    /\ DOMAIN document_map = URIs
    /\ document_map["A"] # document_map["B"]
    /\ \A u \in URIs : published[u] # None

====
